---- MODULE Spec2Model ----
(***************************************************************************)
(* Model of the near-wagers contract (contract/assembly/index.ts).         *)
(*                                                                         *)
(* Every exported entry point is one action.  A call runs to completion or *)
(* aborts; an abort (a failed assert of the contract, or a failed getSome  *)
(* of the storage collections) discards every write of the call, so a      *)
(* failing call leaves the state as it was.  For every entry point X the   *)
(* operator XCall computes the outcome of the call from the current state: *)
(* the result (OK or the error of the abort) and the storage it leaves.    *)
(*                                                                         *)
(* The persistent collections are modelled by what they store:             *)
(*   - a PersistentMap / PersistentUnorderedMap is a function whose DOMAIN *)
(*     is the set of keys that were `set`; get(k, d) returns d for a       *)
(*     missing key WITHOUT storing it, getSome(k) aborts the call for a    *)
(*     missing key;                                                        *)
(*   - a PersistentSet / MaxHeap object is a handle on the storage under   *)
(*     its prefix ('ow-' + symbol, 'aw-' + symbol): its elements live in   *)
(*     openSets[symbol] / heaps[symbol] whether or not a map holds the     *)
(*     handle.                                                             *)
(***************************************************************************)
EXTENDS Integers, Sequences, FiniteSets, TLC

\* ---------------------------------------------------------------- bounds
Width == 2              \* bits of the modelled u128
MaxTime == 2            \* largest block timestamp
MaxWagers == 2          \* number of wager ids the counter may hand out
MaxBet == 1             \* largest bet offered to createWager
MaxAmount == 2          \* largest amount offered to transfer

\* ------------------------------------------------------- program constants
MAX_SYMBOL_LENGTH == 128

RECURSIVE Pow2(_)
Pow2(n) == IF n = 0 THEN 1 ELSE 2 * Pow2(n - 1)

U128Modulus == Pow2(Width)
TOTAL_SUPPLY == U128Modulus - 1          \* u128.Max

\* u128.add / u128.sub wrap around modulo 2^width
U128Add(a, b) == (a + b) % U128Modulus
U128Sub(a, b) == (a - b + U128Modulus) % U128Modulus

\* ------------------------------------------------------------ input sets
Accounts == {"alice", "bob"}
InvalidAccountId == "definitely invalid address..."
NoAccount == ""                          \* the empty side of a wager
NoOracle == "<null>"                     \* storage.getString('oracle') == null

BTC == "BTC"
ETH == "ETH"
Symbols == {BTC, ETH}
\* a symbol of MAX_SYMBOL_LENGTH + 1 characters
LongSymbol == "xxxxxxxxxxxxxxxxxxxxxxxxxxxxxxxxxxxxxxxxxxxxxxxxxxxxxxxxxxxxxxxxxxxxxxxxxxxxxxxxxxxxxxxxxxxxxxxxxxxxxxxxxxxxxxxxxxxxxxxxxxxxxxxxx"

StrikeValues == {0, 2}                   \* strike values offered to createWager
ReportValues == {1, 2, 3}                \* values offered to reportSymbol
CancelTimes == {0, 1}                    \* allowCancelAt offered to createWager

\* createWager is offered every well-formed argument list, and every mix of
\* ill-formed arguments on one side and cancel time (which no check reads)
WellFormedInputs ==
  [symbol : Symbols, isOver : BOOLEAN, value : StrikeValues \ {0},
   bet : 1..MaxBet, at : 0..MaxTime, allowCancelAt : CancelTimes]
IllFormedInputs ==
  [symbol : {BTC, LongSymbol}, isOver : {TRUE}, value : StrikeValues,
   bet : 0..1, at : 0..MaxTime, allowCancelAt : {0}]
CreateWagerInputs == WellFormedInputs \cup IllFormedInputs

\* mutant of isValidAccountID: every string passes for an account id
isValidAccountIDAny(a) == a = a

\* env.isValidAccountID
isValidAccountID(a) == a \in Accounts

\* ------------------------------------------------------------ error kinds
OK == "ok"
ERR_ALREADY_MINTED == "Already minted"
ERR_INVALID_ACCOUNT == "Invalid account"
ERR_INVALID_AMOUNT == "Invalid amount"
ERR_INVALID_TIME == "Invalid time"
ERR_INVALID_WAGER == "Invalid wager id"
ERR_INVALID_SYMBOL == "Invalid symbol"
ERR_CANNOT_ACCEPT == "Cannot accept wager"
ERR_CANNOT_CANCEL == "Cannot cancel wager"
ERR_INSUFFICIENT_BALANCE == "Insufficient balance"
\* abort raised inside the storage collections (getSome of a missing key)
ERR_KEY_NOT_FOUND == "key not present in the storage"

VARIABLES
  minted,          \* storage.contains('minted')
  oracle,          \* storage.getString('oracle'), NoOracle while unset
  nextWagerId,     \* storage.getPrimitive<u64>('wagerId', 1)
  balances,        \* PersistentMap 'b'  : account -> u128
  wagers,          \* PersistentMap 'w'  : wager id -> Wager
  userWagers,      \* PersistentMap 'u'  : account -> u64[]
  openWagers,      \* PersistentUnorderedMap 'ow' : set of the keys that were set
  acceptedWagers,  \* PersistentMap 'aw' : set of the keys that were set
  openSets,        \* contents of PersistentSet('ow-' + symbol), per symbol
  heaps,           \* contents of MaxHeap('aw-' + symbol), per symbol
  blockTimestamp   \* context.blockTimestamp of the next call

store == <<minted, oracle, nextWagerId, balances, wagers, userWagers,
           openWagers, acceptedWagers, openSets, heaps>>
vars == <<minted, oracle, nextWagerId, balances, wagers, userWagers,
          openWagers, acceptedWagers, openSets, heaps, blockTimestamp>>

\* ------------------------------------------------------------ map helpers
MapSet(m, k, v) == [x \in DOMAIN m \cup {k} |-> IF x = k THEN v ELSE m[x]]
MapDelete(m, k) == [x \in DOMAIN m \ {k} |-> m[x]]
MapGet(m, k, default) == IF k \in DOMAIN m THEN m[k] ELSE default
EmptyMap == [x \in {} |-> 0]

Init ==
  /\ minted = FALSE
  /\ oracle = NoOracle
  /\ nextWagerId = 1
  /\ balances = EmptyMap
  /\ wagers = EmptyMap
  /\ userWagers = EmptyMap
  /\ openWagers = {}
  /\ acceptedWagers = {}
  /\ openSets = [s \in Symbols |-> {}]
  /\ heaps = [s \in Symbols |-> <<>>]
  /\ blockTimestamp = 0

\* ------------------------------------------------------- a running call
\* the storage a call starts on; `ok`/`err` is its result so far, `id` the
\* wager id it returns (0 when none)
Running ==
  [ok |-> TRUE, err |-> OK, id |-> 0,
   minted |-> minted, oracle |-> oracle, nextWagerId |-> nextWagerId,
   balances |-> balances, wagers |-> wagers, userWagers |-> userWagers,
   openWagers |-> openWagers, acceptedWagers |-> acceptedWagers,
   openSets |-> openSets, heaps |-> heaps]

\* a failed assert, or a getSome of a missing key
Abort(st, e) == [st EXCEPT !.ok = FALSE, !.err = e]

\* the end of a call: its writes are stored, or all discarded when it aborted
Commit(st) ==
  IF st.ok
  THEN /\ minted' = st.minted
       /\ oracle' = st.oracle
       /\ nextWagerId' = st.nextWagerId
       /\ balances' = st.balances
       /\ wagers' = st.wagers
       /\ userWagers' = st.userWagers
       /\ openWagers' = st.openWagers
       /\ acceptedWagers' = st.acceptedWagers
       /\ openSets' = st.openSets
       /\ heaps' = st.heaps
       /\ UNCHANGED blockTimestamp
  ELSE UNCHANGED vars

\* ------------------------------------------------------------------ mint
\* mutant of mintCall: no assert on the 'minted' flag (line 311)
mintCallAgain(caller) ==
  [Running EXCEPT !.minted = TRUE,
                  !.oracle = caller,
                  !.balances = MapSet(@, caller, TOTAL_SUPPLY)]

mintCall(caller) ==
  IF minted THEN Abort(Running, ERR_ALREADY_MINTED)
  ELSE [Running EXCEPT !.minted = TRUE,
                       !.oracle = caller,
                       !.balances = MapSet(@, caller, TOTAL_SUPPLY)]

\* every call is made at a timestamp of the modelled clock
mint(caller) ==
  /\ blockTimestamp <= MaxTime
  /\ Commit(mintCall(caller))

\* -------------------------------------------------------------- transfer
\* both balances are read before either is written (lines 293-299)
transferBalances(b, caller, to, amount) ==
  LET balanceOfOwner == b[caller]
      balanceOfNewOwner == MapGet(b, to, 0)
      afterDebit == MapSet(b, caller, U128Sub(balanceOfOwner, amount))
  IN MapSet(afterDebit, to, U128Add(balanceOfNewOwner, amount))

transferCall(caller, to, amount) ==
  IF ~(amount > 0) THEN Abort(Running, ERR_INVALID_AMOUNT)
  ELSE IF ~isValidAccountID(to) THEN Abort(Running, ERR_INVALID_ACCOUNT)
  ELSE IF caller \notin DOMAIN balances THEN Abort(Running, ERR_INVALID_ACCOUNT)
  ELSE IF ~(balances[caller] >= amount) THEN Abort(Running, ERR_INSUFFICIENT_BALANCE)
  ELSE [Running EXCEPT !.balances = transferBalances(@, caller, to, amount)]

transfer(caller, to, amount) ==
  /\ blockTimestamp <= MaxTime
  /\ Commit(transferCall(caller, to, amount))

\* --------------------------------------------------------------- wagerId
\* mutant of wagerId: the successor of the id is not stored
wagerIdStale == [id |-> nextWagerId, next |-> nextWagerId]

\* returns the stored counter (1 when absent) and stores its successor
wagerId == [id |-> nextWagerId, next |-> nextWagerId + 1]

\* ----------------------------------------------------------------- Wager
\* mutant of Wager: `under` stored on both sides
WagerUnderTwice(id, symbol, value, at, allowCancelAt, bet, over, under) ==
  [id |-> id, symbol |-> symbol, value |-> value, at |-> at,
   allowCancelAt |-> allowCancelAt, bet |-> bet, over |-> under, under |-> under]

Wager(id, symbol, value, at, allowCancelAt, bet, over, under) ==
  [id |-> id, symbol |-> symbol, value |-> value, at |-> at,
   allowCancelAt |-> allowCancelAt, bet |-> bet, over |-> over, under |-> under]

\* ------------------------------------------------------- SortWagerByTime
SortWagerByTime(w) == [wagerId |-> w.id, at |-> w.at]
\* operator '>' : the earlier expiry is the greater element
SortWagerByTimeGt(left, right) == left.at < right.at
\* operator '==' : identity of the wager, not its time
SortWagerByTimeEq(left, right) == left.wagerId = right.wagerId

\* --------------------------------------------------------------- MaxHeap
\* The heap is kept as the sequence of its entries in the order pop()
\* delivers them: greatest (earliest expiry) first, ties in insertion order.
RECURSIVE HeapInsert(_, _)
HeapInsert(h, e) ==
  IF h = <<>> THEN <<e>>
  ELSE IF SortWagerByTimeGt(e, Head(h)) THEN <<e>> \o h
  ELSE <<Head(h)>> \o HeapInsert(Tail(h), e)

HeapPush(h, e) == HeapInsert(h, e)
HeapIsEmpty(h) == h = <<>>
HeapTop(h) == Head(h)
HeapPop(h) == Tail(h)
HeapValues(h) == h

\* ------------------------------------------------------- array operations
SeqRange(q) == {q[i] : i \in DOMAIN q}
\* Array#indexOf, 0-based, -1 when absent
IndexOf(q, x) ==
  IF x \in SeqRange(q)
  THEN (CHOOSE i \in DOMAIN q : q[i] = x /\ \A j \in 1..(i - 1) : q[j] # x) - 1
  ELSE -1
\* Array#splice(start, deleteCount): a negative start counts from the end
Max(a, b) == IF a > b THEN a ELSE b
Min(a, b) == IF a < b THEN a ELSE b
Splice(q, start, deleteCount) ==
  LET s == IF start < 0 THEN Max(Len(q) + start, 0) ELSE Min(start, Len(q))
      d == Max(Min(deleteCount, Len(q) - s), 0)
  IN SubSeq(q, 1, s) \o SubSeq(q, s + d + 1, Len(q))

\* ---------------------------------------------------------- read queries
\* the read-only entry points, answered on the storage st
getSymbols(st) == st.openWagers

getOpenWagersForSymbol(st, symbol) ==
  IF symbol \in st.openWagers THEN st.openSets[symbol] ELSE {}

getAcceptedWagersForSymbol(st, symbol) ==
  IF symbol \in st.acceptedWagers
  THEN {HeapValues(st.heaps[symbol])[i].wagerId : i \in DOMAIN HeapValues(st.heaps[symbol])}
  ELSE {}

getWagersForAccount(st, account) == MapGet(st.userWagers, account, <<>>)

\* getWager(id): OK (the record is returned) or the error of its assert
getWager(st, id) == IF id \in DOMAIN st.wagers THEN OK ELSE ERR_INVALID_WAGER

getBalance(st, account) == MapGet(st.balances, account, 0)

getTotalSupply == TOTAL_SUPPLY

getOracles(st) == <<st.oracle>>

\* ----------------------------------------------------------- createWager
\* mutant of createWagerCall: the id is not pushed on the caller's wager list
createWagerCallNoList(caller, symbol, isOver, value, bet, at, allowCancelAt) ==
  IF ~(bet > 0) THEN Abort(Running, ERR_INVALID_AMOUNT)
  ELSE IF ~(value > 0) THEN Abort(Running, ERR_INVALID_AMOUNT)
  ELSE IF ~(at > blockTimestamp) THEN Abort(Running, ERR_INVALID_TIME)
  ELSE IF ~(Len(symbol) <= MAX_SYMBOL_LENGTH) THEN Abort(Running, ERR_INVALID_SYMBOL)
  ELSE IF caller \notin DOMAIN balances THEN Abort(Running, ERR_INVALID_ACCOUNT)
  ELSE IF ~(balances[caller] >= bet) THEN Abort(Running, ERR_INSUFFICIENT_BALANCE)
  ELSE
    LET balance == balances[caller]
        over == IF isOver THEN caller ELSE NoAccount
        under == IF isOver THEN NoAccount ELSE caller
        wager == Wager(wagerId.id, symbol, value, at, allowCancelAt, bet, over, under)
        userWagersList == MapGet(userWagers, caller, <<>>)
    IN [Running EXCEPT
          !.nextWagerId = wagerId.next,
          !.balances = MapSet(@, caller, U128Sub(balance, wager.bet)),
          !.wagers = MapSet(@, wager.id, wager),
          \* openWagers.get(symbol, new PersistentSet('ow-' + symbol)) hands out
          \* the set under that prefix; the map openWagers itself is not written
          !.openSets[wager.symbol] = @ \cup {wager.id},
          !.id = wager.id]

\* mutant of createWagerCall: an expiry equal to the block time passes
createWagerCallAtNow(caller, symbol, isOver, value, bet, at, allowCancelAt) ==
  IF ~(bet > 0) THEN Abort(Running, ERR_INVALID_AMOUNT)
  ELSE IF ~(value > 0) THEN Abort(Running, ERR_INVALID_AMOUNT)
  ELSE IF ~(at >= blockTimestamp) THEN Abort(Running, ERR_INVALID_TIME)
  ELSE IF ~(Len(symbol) <= MAX_SYMBOL_LENGTH) THEN Abort(Running, ERR_INVALID_SYMBOL)
  ELSE IF caller \notin DOMAIN balances THEN Abort(Running, ERR_INVALID_ACCOUNT)
  ELSE IF ~(balances[caller] >= bet) THEN Abort(Running, ERR_INSUFFICIENT_BALANCE)
  ELSE
    LET balance == balances[caller]
        over == IF isOver THEN caller ELSE NoAccount
        under == IF isOver THEN NoAccount ELSE caller
        wager == Wager(wagerId.id, symbol, value, at, allowCancelAt, bet, over, under)
        userWagersList == MapGet(userWagers, caller, <<>>)
    IN [Running EXCEPT
          !.nextWagerId = wagerId.next,
          !.balances = MapSet(@, caller, U128Sub(balance, wager.bet)),
          !.wagers = MapSet(@, wager.id, wager),
          !.userWagers = MapSet(@, caller, Append(userWagersList, wager.id)),
          \* openWagers.get(symbol, new PersistentSet('ow-' + symbol)) hands out
          \* the set under that prefix; the map openWagers itself is not written
          !.openSets[wager.symbol] = @ \cup {wager.id},
          !.id = wager.id]

createWagerCall(caller, symbol, isOver, value, bet, at, allowCancelAt) ==
  IF ~(bet > 0) THEN Abort(Running, ERR_INVALID_AMOUNT)
  ELSE IF ~(value > 0) THEN Abort(Running, ERR_INVALID_AMOUNT)
  ELSE IF ~(at > blockTimestamp) THEN Abort(Running, ERR_INVALID_TIME)
  ELSE IF ~(Len(symbol) <= MAX_SYMBOL_LENGTH) THEN Abort(Running, ERR_INVALID_SYMBOL)
  ELSE IF caller \notin DOMAIN balances THEN Abort(Running, ERR_INVALID_ACCOUNT)
  ELSE IF ~(balances[caller] >= bet) THEN Abort(Running, ERR_INSUFFICIENT_BALANCE)
  ELSE
    LET balance == balances[caller]
        over == IF isOver THEN caller ELSE NoAccount
        under == IF isOver THEN NoAccount ELSE caller
        wager == Wager(wagerId.id, symbol, value, at, allowCancelAt, bet, over, under)
        userWagersList == MapGet(userWagers, caller, <<>>)
    IN [Running EXCEPT
          !.nextWagerId = wagerId.next,
          !.balances = MapSet(@, caller, U128Sub(balance, wager.bet)),
          !.wagers = MapSet(@, wager.id, wager),
          !.userWagers = MapSet(@, caller, Append(userWagersList, wager.id)),
          \* openWagers.get(symbol, new PersistentSet('ow-' + symbol)) hands out
          \* the set under that prefix; the map openWagers itself is not written
          !.openSets[wager.symbol] = @ \cup {wager.id},
          !.id = wager.id]

createWager(caller, symbol, isOver, value, bet, at, allowCancelAt) ==
  /\ nextWagerId <= MaxWagers
  /\ Commit(createWagerCall(caller, symbol, isOver, value, bet, at, allowCancelAt))

\* ----------------------------------------------------------- deleteWager
\* works on the wager list of the caller of the running call
deleteWager(st, caller, wager) ==
  IF ~st.ok THEN st
  ELSE IF caller \notin DOMAIN st.userWagers THEN Abort(st, ERR_KEY_NOT_FOUND)
  ELSE LET userWagersList == st.userWagers[caller]
           spliced == Splice(userWagersList, IndexOf(userWagersList, wager.id), 1)
       IN [st EXCEPT !.userWagers = MapSet(@, caller, spliced),
                     !.wagers = MapDelete(@, wager.id)]

\* ---------------------------------------------------- distributeWinnings
distributeWinnings(st, wager, symbolValue) ==
  IF ~st.ok THEN st
  ELSE IF symbolValue > wager.value
  THEN IF wager.over \notin DOMAIN st.balances THEN Abort(st, ERR_KEY_NOT_FOUND)
       ELSE LET winnings == U128Add(wager.bet, wager.bet)
                overBalance == st.balances[wager.over]
            IN [st EXCEPT !.balances =
                  MapSet(@, wager.over, U128Add(overBalance, winnings))]
  ELSE IF symbolValue < wager.value
  THEN IF wager.under \notin DOMAIN st.balances THEN Abort(st, ERR_KEY_NOT_FOUND)
       ELSE LET winnings == U128Add(wager.bet, wager.bet)
                underBalance == st.balances[wager.under]
            IN [st EXCEPT !.balances =
                  MapSet(@, wager.under, U128Add(underBalance, winnings))]
  ELSE IF wager.under \notin DOMAIN st.balances \/ wager.over \notin DOMAIN st.balances
       THEN Abort(st, ERR_KEY_NOT_FOUND)
       ELSE LET underBalance == st.balances[wager.under]
                overBalance == st.balances[wager.over]
                afterUnder == MapSet(st.balances, wager.under,
                                     U128Add(underBalance, wager.bet))
            IN [st EXCEPT !.balances =
                  MapSet(afterUnder, wager.over, U128Add(overBalance, wager.bet))]

\* ---------------------------------------------------------- reportSymbol
\* the loop of lines 127-137 on the heap of the symbol
RECURSIVE settleLoop(_, _, _, _)
settleLoop(st, caller, symbol, value) ==
  IF ~st.ok \/ HeapIsEmpty(st.heaps[symbol]) THEN st
  ELSE LET top == HeapTop(st.heaps[symbol]) IN
       IF top.at < blockTimestamp
       THEN IF top.wagerId \notin DOMAIN st.wagers THEN Abort(st, ERR_KEY_NOT_FOUND)
            ELSE LET wager == st.wagers[top.wagerId]
                     popped == [st EXCEPT !.heaps[symbol] = HeapPop(@)]
                     paid == distributeWinnings(popped, wager, value)
                 IN settleLoop(deleteWager(paid, caller, wager), caller, symbol, value)
       ELSE st

\* mutant of reportSymbolCall: the caller is not compared with the oracle
reportSymbolCallAnyone(caller, symbol, value) ==
  IF symbol \in acceptedWagers
  THEN settleLoop(Running, caller, symbol, value)
  ELSE Running

\* mutant of reportSymbolCall: the comparison with the oracle is inverted
reportSymbolCallNotOracle(caller, symbol, value) ==
  IF oracle = caller THEN Abort(Running, ERR_INVALID_ACCOUNT)
  ELSE IF symbol \in acceptedWagers
  THEN settleLoop(Running, caller, symbol, value)
  ELSE Running

reportSymbolCall(caller, symbol, value) ==
  IF ~(oracle = caller) THEN Abort(Running, ERR_INVALID_ACCOUNT)
  ELSE IF symbol \in acceptedWagers   \* wagerIds != null
  THEN settleLoop(Running, caller, symbol, value)
  ELSE Running

reportSymbol(caller, symbol, value) ==
  /\ blockTimestamp <= MaxTime
  /\ Commit(reportSymbolCall(caller, symbol, value))

\* ----------------------------------------------------------- cancelWager
\* mutant of canCancel: the occupant is not compared with the caller
canCancelAnyCaller(wager, caller) ==
  \/ wager.under = NoAccount
  \/ wager.over = NoAccount
  \/ (wager.allowCancelAt # 0 /\ blockTimestamp > wager.allowCancelAt)

\* the condition asserted at lines 168-176
canCancel(wager, caller) ==
     \* the wager has not been accepted...
  \/ (wager.over = caller /\ wager.under = NoAccount)
  \/ (wager.under = caller /\ wager.over = NoAccount)
     \* or we are allowed to unilaterally cancel it
  \/ (wager.allowCancelAt # 0 /\ blockTimestamp > wager.allowCancelAt)

cancelWagerCall(caller, id) ==
  IF id \notin DOMAIN wagers THEN Abort(Running, ERR_INVALID_WAGER)
  ELSE IF caller \notin DOMAIN userWagers THEN Abort(Running, ERR_INVALID_ACCOUNT)
  ELSE
    LET wager == wagers[id] IN
    IF ~canCancel(wager, caller) THEN Abort(Running, ERR_CANNOT_CANCEL)
    ELSE
      LET deleted == deleteWager(Running, caller, wager)
          \* openWagers.getSome(wager.symbol).delete(wager.id)
          unindexed ==
            IF ~deleted.ok THEN deleted
            ELSE IF wager.symbol \notin deleted.openWagers
            THEN Abort(deleted, ERR_KEY_NOT_FOUND)
            ELSE [deleted EXCEPT !.openSets[wager.symbol] = @ \ {wager.id}]
      IN IF ~unindexed.ok THEN unindexed
         ELSE IF caller \notin DOMAIN unindexed.balances
         THEN Abort(unindexed, ERR_KEY_NOT_FOUND)
         ELSE [unindexed EXCEPT !.balances =
                 MapSet(@, caller, U128Add(unindexed.balances[caller], wager.bet))]

cancelWager(caller, id) ==
  /\ blockTimestamp <= MaxTime
  /\ Commit(cancelWagerCall(caller, id))

\* ----------------------------------------------------------- acceptWager
\* mutants of canAccept: no self-acceptance test; `>=` on the expiry
canAcceptOwn(wager, caller) ==
  /\ wager.at > blockTimestamp
  /\ (wager.under = NoAccount \/ wager.over = NoAccount)

canAcceptAtExpiry(wager, caller) ==
  /\ wager.at >= blockTimestamp
  /\ (wager.under = NoAccount \/ wager.over = NoAccount)
  /\ wager.over # caller
  /\ wager.under # caller

\* the condition asserted at lines 199-205
canAccept(wager, caller) ==
  /\ wager.at > blockTimestamp                              \* wager has not expired
  /\ (wager.under = NoAccount \/ wager.over = NoAccount)    \* wager is open
  /\ wager.over # caller                                    \* cannot accept own wager
  /\ wager.under # caller

acceptWagerCall(caller, id) ==
  IF id \notin DOMAIN wagers THEN Abort(Running, ERR_INVALID_WAGER)
  ELSE IF caller \notin DOMAIN balances THEN Abort(Running, ERR_INVALID_ACCOUNT)
  ELSE
    LET wager == wagers[id] IN
    IF ~canAccept(wager, caller) THEN Abort(Running, ERR_CANNOT_ACCEPT)
    ELSE IF ~(balances[caller] >= wager.bet)
    THEN Abort(Running, ERR_INSUFFICIENT_BALANCE)
    ELSE
      LET balance == balances[caller]
          filled == IF wager.over = NoAccount
                    THEN [wager EXCEPT !.over = caller]
                    ELSE [wager EXCEPT !.under = caller]
          userWagersList == MapGet(userWagers, caller, <<>>)
          written == [Running EXCEPT
                        !.balances = MapSet(@, caller, U128Sub(balance, filled.bet)),
                        !.wagers = MapSet(@, filled.id, filled),
                        !.userWagers = MapSet(@, caller, Append(userWagersList, filled.id))]
      IN \* openWagers.getSome(wager.symbol).delete(wager.id)
         IF filled.symbol \notin written.openWagers
         THEN Abort(written, ERR_KEY_NOT_FOUND)
         ELSE \* acceptedWagers.get(symbol, new MaxHeap('aw-' + symbol)).push(swbt):
              \* the heap under that prefix; the map acceptedWagers is not written
              [written EXCEPT
                 !.openSets[filled.symbol] = @ \ {filled.id},
                 !.heaps[filled.symbol] = HeapPush(@, SortWagerByTime(filled))]

acceptWager(caller, id) ==
  /\ blockTimestamp <= MaxTime
  /\ Commit(acceptWagerCall(caller, id))

\* ----------------------------------------------------------------- clock
\* the host supplies a non-decreasing block timestamp
Tick ==
  /\ blockTimestamp < MaxTime
  /\ blockTimestamp' = blockTimestamp + 1
  /\ UNCHANGED store

Next ==
  \/ \E caller \in Accounts : mint(caller)
  \/ \E caller \in Accounts, to \in Accounts \cup {InvalidAccountId},
        amount \in 0..MaxAmount : transfer(caller, to, amount)
  \/ \E caller \in Accounts, a \in CreateWagerInputs :
        createWager(caller, a.symbol, a.isOver, a.value, a.bet, a.at, a.allowCancelAt)
  \/ \E caller \in Accounts, id \in 1..(MaxWagers + 1) : acceptWager(caller, id)
  \/ \E caller \in Accounts, id \in 1..(MaxWagers + 1) : cancelWager(caller, id)
  \/ \E caller \in Accounts, symbol \in Symbols, value \in ReportValues :
        reportSymbol(caller, symbol, value)
  \/ Tick

Spec == Init /\ [][Next]_vars

(***************************************************************************)
(* The claims.                                                             *)
(***************************************************************************)
AllIds == 0..(MaxWagers + 2)

RECURSIVE SumOver(_, _)
SumOver(f, S) ==
  IF S = {} THEN 0
  ELSE LET x == CHOOSE y \in S : TRUE IN f[x] + SumOver(f, S \ {x})

IsOpen(w) == (w.over = NoAccount) # (w.under = NoAccount)
IsMatched(w) == w.over # NoAccount /\ w.under # NoAccount
FilledSides(w) ==
  (IF w.over # NoAccount THEN 1 ELSE 0) + (IF w.under # NoAccount THEN 1 ELSE 0)
Occupies(a, w) == a # NoAccount /\ (w.over = a \/ w.under = a)

BalanceSum == SumOver(balances, DOMAIN balances)
Escrowed ==
  SumOver([id \in DOMAIN wagers |-> wagers[id].bet * FilledSides(wagers[id])],
          DOMAIN wagers)

\* No call ever writes the maps openWagers and acceptedWagers, so no
\* acceptWager or cancelWager gets past its getSome and no wager is ever
\* Matched or removed.
IndexMapsEmpty ==
  /\ openWagers = {}
  /\ acceptedWagers = {}
  /\ \A id \in DOMAIN wagers : IsOpen(wagers[id])
  /\ DOMAIN wagers = 1..(nextWagerId - 1)

\* C1: once minted, the balances plus one bet for each filled side of each
\* existing wager add up to the total supply.
C1_Conservation == minted => BalanceSum + Escrowed = TOTAL_SUPPLY

\* C4: every existing wager has a side filled; a record changes only from
\* Open to Matched, in an acceptWager step; it disappears only from Open in a
\* cancelWager step or from Matched in a reportSymbol step; a record appears
\* only under a fresh id, Open; an id that was handed out and is gone is
\* refused by getWager and stays gone.
C4_SideFilled == \A id \in DOMAIN wagers : IsOpen(wagers[id]) \/ IsMatched(wagers[id])

C4_Gone ==
  \A id \in 1..(nextWagerId - 1) :
    id \notin DOMAIN wagers => getWager(Running, id) = ERR_INVALID_WAGER

C4_Step ==
  \A id \in DOMAIN wagers \cup DOMAIN wagers' \cup 1..(nextWagerId - 1) :
    /\ (id \in DOMAIN wagers /\ id \in DOMAIN wagers' /\ wagers'[id] # wagers[id]) =>
         /\ IsOpen(wagers[id])
         /\ IsMatched(wagers'[id])
         /\ \E caller \in Accounts : acceptWager(caller, id)
    /\ (id \in DOMAIN wagers /\ id \notin DOMAIN wagers') =>
         \/ IsOpen(wagers[id]) /\ \E caller \in Accounts : cancelWager(caller, id)
         \/ /\ IsMatched(wagers[id])
            /\ \E caller \in Accounts, value \in ReportValues :
                 reportSymbol(caller, wagers[id].symbol, value)
    /\ (id \notin DOMAIN wagers /\ id \in DOMAIN wagers') =>
         id = nextWagerId /\ IsOpen(wagers'[id])
    /\ (id \notin DOMAIN wagers /\ id < nextWagerId) => id \notin DOMAIN wagers'

C5_Rejected ==
  \A caller \in Accounts, id \in DOMAIN wagers :
    LET w == wagers[id]
        out == cancelWagerCall(caller, id)
        sole == IsOpen(w) /\ Occupies(caller, w)
        elapsed == w.allowCancelAt # 0 /\ blockTimestamp > w.allowCancelAt
    IN /\ out.ok => sole
       /\ ~sole => ~out.ok
       /\ (~sole /\ caller \notin DOMAIN userWagers) => out.err = ERR_INVALID_ACCOUNT
       /\ (~sole /\ caller \in DOMAIN userWagers /\ ~elapsed) =>
            out.err = ERR_CANNOT_CANCEL

C5_RejectedStep ==
  \/ UNCHANGED store
  \/ \A caller \in Accounts, id \in DOMAIN wagers :
       ~(~(IsOpen(wagers[id]) /\ Occupies(caller, wagers[id])) /\ cancelWager(caller, id))

C6_NoSelfAccept ==
  \A id \in DOMAIN wagers :
    /\ wagers[id].over # wagers[id].under
    /\ \A caller \in Accounts :
         Occupies(caller, wagers[id]) =>
           LET out == acceptWagerCall(caller, id)
           IN ~out.ok /\ out.err = ERR_CANNOT_ACCEPT

\* the occupant of an Open, unexpired wager can afford the bet once more:
\* only the self-acceptance check stands between it and the other side
C6_Witness ==
  \E id \in DOMAIN wagers, caller \in Accounts :
    /\ IsOpen(wagers[id])
    /\ Occupies(caller, wagers[id])
    /\ wagers[id].at > blockTimestamp
    /\ getBalance(Running, caller) >= wagers[id].bet
    /\ acceptWagerCall(caller, id).err = ERR_CANNOT_ACCEPT

\* C7: acceptWager is rejected, with no state change: with InvalidWager for
\* an unknown id; else with InvalidAccount for a caller without a balance
\* record; else with CannotAccept at or after the expiry or on a Matched
\* wager; else, for a caller on neither side, with InsufficientBalance when
\* the balance is below the bet.
C7_Case(caller, id) ==
  \/ id \notin DOMAIN wagers
  \/ caller \notin DOMAIN balances
  \/ blockTimestamp >= wagers[id].at
  \/ IsMatched(wagers[id])
  \/ balances[caller] < wagers[id].bet

C7_Errors ==
  \A caller \in Accounts, id \in AllIds :
    LET out == acceptWagerCall(caller, id) IN
    /\ C7_Case(caller, id) => ~out.ok
    /\ id \notin DOMAIN wagers => out.err = ERR_INVALID_WAGER
    /\ (id \in DOMAIN wagers /\ caller \notin DOMAIN balances) =>
         out.err = ERR_INVALID_ACCOUNT
    /\ (/\ id \in DOMAIN wagers
        /\ caller \in DOMAIN balances
        /\ (blockTimestamp >= wagers[id].at \/ IsMatched(wagers[id]))) =>
         out.err = ERR_CANNOT_ACCEPT
    /\ (/\ id \in DOMAIN wagers
        /\ caller \in DOMAIN balances
        /\ blockTimestamp < wagers[id].at
        /\ IsOpen(wagers[id])
        /\ ~Occupies(caller, wagers[id])
        /\ balances[caller] < wagers[id].bet) =>
         out.err = ERR_INSUFFICIENT_BALANCE

C7_Step ==
  \/ UNCHANGED store
  \/ \A caller \in Accounts, id \in AllIds :
       ~(C7_Case(caller, id) /\ acceptWager(caller, id))

C7_AcceptRejected == []C7_Errors /\ [][C7_Step]_vars

\* an account that could pay the bet asks for the other side of an Open
\* wager at the very timestamp of its expiry
C7_Witness ==
  \E caller \in Accounts, id \in DOMAIN wagers :
    /\ IsOpen(wagers[id])
    /\ ~Occupies(caller, wagers[id])
    /\ caller \in DOMAIN balances
    /\ balances[caller] >= wagers[id].bet
    /\ blockTimestamp = wagers[id].at
    /\ acceptWagerCall(caller, id).err = ERR_CANNOT_ACCEPT

\* C8: an acceptWager that none of the four checks rejects takes effect: it
\* debits the bet from the caller, fills the empty side with the caller and
\* leaves the rest of the record alone, appends the id to the caller's list,
\* takes the id out of the symbol's open-set and puts it in the symbol's
\* matched queue, as the read queries show.
C8_AcceptEffect ==
  \A caller \in Accounts, id \in DOMAIN wagers :
    LET w == wagers[id]
        out == acceptWagerCall(caller, id)
    IN (/\ caller \in DOMAIN balances
        /\ blockTimestamp < w.at
        /\ IsOpen(w)
        /\ ~Occupies(caller, w)
        /\ balances[caller] >= w.bet) =>
         /\ out.ok
         /\ getBalance(out, caller) = balances[caller] - w.bet
         /\ out.wagers[id] = (IF w.over = NoAccount THEN [w EXCEPT !.over = caller]
                                                    ELSE [w EXCEPT !.under = caller])
         /\ getWagersForAccount(out, caller) =
              Append(getWagersForAccount(Running, caller), id)
         /\ id \notin getOpenWagersForSymbol(out, w.symbol)
         /\ id \in getAcceptedWagersForSymbol(out, w.symbol)

\* C9: a successful createWager debits the bet from the caller, returns a
\* new id, stores the wager Open with the caller on the requested side, and
\* the id is listed by getOpenWagersForSymbol and getWagersForAccount, the
\* symbol by getSymbols.
C9_CreateEffect ==
  \A caller \in Accounts, a \in CreateWagerInputs :
    LET out == createWagerCall(caller, a.symbol, a.isOver, a.value, a.bet, a.at,
                               a.allowCancelAt)
    IN out.ok =>
         /\ getBalance(out, caller) = balances[caller] - a.bet
         /\ out.id \notin DOMAIN wagers
         /\ out.id \in DOMAIN out.wagers
         /\ out.wagers[out.id] =
              Wager(out.id, a.symbol, a.value, a.at, a.allowCancelAt, a.bet,
                    IF a.isOver THEN caller ELSE NoAccount,
                    IF a.isOver THEN NoAccount ELSE caller)
         /\ out.id \in SeqRange(getWagersForAccount(out, caller))
         /\ out.id \in getOpenWagersForSymbol(out, a.symbol)
         /\ a.symbol \in getSymbols(out)

\* C10: once minted, every mint call fails with AlreadyMinted and leaves the
\* balances and the reporter as they are.
C10_Refused ==
  minted => \A caller \in Accounts :
              LET out == mintCall(caller)
              IN ~out.ok /\ out.err = ERR_ALREADY_MINTED

C10_Step ==
  \/ UNCHANGED <<balances, oracle>>
  \/ \A caller \in Accounts : ~(minted /\ mint(caller))

C10_DoubleMint == []C10_Refused /\ [][C10_Step]_vars

\* minted, and the supply is no longer where the first mint put it
C10_Witness ==
  /\ minted
  /\ \E a \in Accounts : a # oracle /\ getBalance(Running, a) > 0


\* C11: the reporter is the caller of the first successful mint and never
\* changes afterwards; reportSymbol by any other account fails with
\* InvalidAccount and changes no state.
C11_Refused ==
  /\ minted <=> oracle \in Accounts
  /\ ~minted => oracle = NoOracle
  /\ \A caller \in Accounts : \A symbol \in Symbols : \A value \in ReportValues :
       caller # oracle =>
         LET out == reportSymbolCall(caller, symbol, value)
         IN ~out.ok /\ out.err = ERR_INVALID_ACCOUNT

C11_OracleStep ==
  \/ oracle' = oracle
  \/ ~minted /\ \E caller \in Accounts : mint(caller) /\ oracle' = caller

C11_ReportStep ==
  \/ UNCHANGED store
  \/ \A caller \in Accounts : \A symbol \in Symbols : \A value \in ReportValues :
       ~(caller # oracle /\ reportSymbol(caller, symbol, value))

C11_ReporterAuthority ==
  []C11_Refused /\ [][C11_OracleStep /\ C11_ReportStep]_vars

\* minted, and an account that is not the reporter holds a balance while a
\* wager is past its expiry
C11_Witness ==
  /\ minted
  /\ \E caller \in DOMAIN balances : caller # oracle
  /\ \E id \in DOMAIN wagers : wagers[id].at < blockTimestamp


\* C12: a successful transfer takes exactly amount from the caller and gives
\* exactly amount to the recipient, with no other balance changing; when the
\* recipient is the caller the caller's balance is left as it was.
C12_TransferEffect ==
  \A caller \in Accounts : \A to \in Accounts : \A amount \in 0..MaxAmount :
    LET out == transferCall(caller, to, amount)
    IN out.ok =>
         /\ \A a \in Accounts \ {caller, to} :
              getBalance(out, a) = getBalance(Running, a)
         /\ IF to = caller
            THEN getBalance(out, caller) = getBalance(Running, caller)
            ELSE /\ getBalance(out, caller) = getBalance(Running, caller) - amount
                 /\ getBalance(out, to) = getBalance(Running, to) + amount


\* C13: transfer is rejected with InvalidAmount for amount zero, with
\* InvalidAccount for a recipient that is no valid account id or a caller
\* without a balance record, and with InsufficientBalance for a caller whose
\* balance is below amount; no balance changes.  The kinds are those of the
\* first check that fails, in the order just given.
C13_Recipients == Accounts \cup {InvalidAccountId}

C13_Case(caller, to, amount) ==
  \/ amount = 0
  \/ to \notin Accounts
  \/ caller \notin DOMAIN balances
  \/ getBalance(Running, caller) < amount

C13_Errors ==
  \A caller \in Accounts : \A to \in C13_Recipients : \A amount \in 0..MaxAmount :
    LET out == transferCall(caller, to, amount)
    IN /\ C13_Case(caller, to, amount) <=> ~out.ok
       /\ ~out.ok => out.balances = balances
       /\ amount = 0 => out.err = ERR_INVALID_AMOUNT
       /\ amount > 0 /\ (to \notin Accounts \/ caller \notin DOMAIN balances)
            => out.err = ERR_INVALID_ACCOUNT
       /\ (amount > 0 /\ to \in Accounts /\ caller \in DOMAIN balances
             /\ getBalance(Running, caller) < amount)
            => out.err = ERR_INSUFFICIENT_BALANCE

C13_Step ==
  \/ UNCHANGED balances
  \/ \A caller \in Accounts : \A to \in C13_Recipients : \A amount \in 0..MaxAmount :
       ~(C13_Case(caller, to, amount) /\ transfer(caller, to, amount))

C13_TransferRejected == []C13_Errors /\ [][C13_Step]_vars

\* every kind of rejection is on offer in one state: an account without a
\* record, and one whose balance is positive but below the largest amount
C13_Witness ==
  /\ \E caller \in Accounts : caller \notin DOMAIN balances
  /\ \E caller \in DOMAIN balances :
       /\ balances[caller] > 0
       /\ balances[caller] < MaxAmount
       /\ transferCall(caller, InvalidAccountId, 1).err = ERR_INVALID_ACCOUNT
       /\ transferCall(caller, caller, MaxAmount).err = ERR_INSUFFICIENT_BALANCE


\* C14: every Open wager is listed in the open-set of its symbol and in no
\* matched queue, every Matched wager in the matched queue of its symbol and
\* in no open-set, and every id listed by an open-set or a matched queue is
\* that of an existing wager of that symbol in that state.
C14_IndexExclusivity ==
  /\ \A id \in DOMAIN wagers :
       LET wager == wagers[id] IN
       /\ IsOpen(wager) =>
            /\ id \in getOpenWagersForSymbol(Running, wager.symbol)
            /\ \A s \in Symbols : id \notin getAcceptedWagersForSymbol(Running, s)
       /\ IsMatched(wager) =>
            /\ id \in getAcceptedWagersForSymbol(Running, wager.symbol)
            /\ \A s \in Symbols : id \notin getOpenWagersForSymbol(Running, s)
  /\ \A s \in Symbols :
       /\ \A id \in getOpenWagersForSymbol(Running, s) :
            id \in DOMAIN wagers /\ wagers[id].symbol = s /\ IsOpen(wagers[id])
       /\ \A id \in getAcceptedWagersForSymbol(Running, s) :
            id \in DOMAIN wagers /\ wagers[id].symbol = s /\ IsMatched(wagers[id])


C16_Fresh ==
  /\ nextWagerId >= 1
  /\ \A id \in DOMAIN wagers : id < nextWagerId /\ wagers[id].id = id
  /\ \A caller \in Accounts : \A a \in CreateWagerInputs :
       LET out == createWagerCall(caller, a.symbol, a.isOver, a.value, a.bet,
                                  a.at, a.allowCancelAt)
       IN IF out.ok
          THEN /\ out.id = nextWagerId
               /\ out.id \notin DOMAIN wagers
               /\ out.nextWagerId = out.id + 1
          ELSE out.nextWagerId = nextWagerId

C16_Step ==
  /\ nextWagerId' >= nextWagerId
  /\ \A id \in DOMAIN wagers' \ DOMAIN wagers :
       id = nextWagerId /\ nextWagerId' = id + 1
  /\ nextWagerId' # nextWagerId => nextWagerId \in DOMAIN wagers'

C16_IdsNeverRepeat == nextWagerId = 1 /\ []C16_Fresh /\ [][C16_Step]_vars

\* the wagers 1 and 2 exist, and an account is there that createWager refuses
C16_Witness ==
  /\ DOMAIN wagers = {1, 2}
  /\ nextWagerId = 3
  /\ \E caller \in Accounts : caller \notin DOMAIN balances


\* C17: every wager record has a positive bet, a positive strike value and
\* an expiry after the block time of its creation; createWager with a zero
\* bet or strike (InvalidAmount), an expiry not after the block time
\* (InvalidTime), a caller without balance record (InvalidAccount) or with a
\* balance below the bet (InsufficientBalance) is rejected and changes no
\* state.  The kinds are those of the first check that fails, in this order,
\* for a symbol within the length bound.
C17_Case(caller, a) ==
  \/ a.bet = 0
  \/ a.value = 0
  \/ a.at <= blockTimestamp
  \/ caller \notin DOMAIN balances
  \/ getBalance(Running, caller) < a.bet

C17_Errors ==
  \A caller \in Accounts : \A a \in CreateWagerInputs :
    LET out == createWagerCall(caller, a.symbol, a.isOver, a.value, a.bet,
                               a.at, a.allowCancelAt)
        amountOk == a.bet > 0 /\ a.value > 0
        timeOk == a.at > blockTimestamp
        symbolOk == Len(a.symbol) <= MAX_SYMBOL_LENGTH
        accountOk == caller \in DOMAIN balances
    IN /\ C17_Case(caller, a) => ~out.ok
       /\ ~amountOk => out.err = ERR_INVALID_AMOUNT
       /\ (amountOk /\ ~timeOk) => out.err = ERR_INVALID_TIME
       /\ (amountOk /\ timeOk /\ symbolOk /\ ~accountOk)
            => out.err = ERR_INVALID_ACCOUNT
       /\ (amountOk /\ timeOk /\ symbolOk /\ accountOk
             /\ getBalance(Running, caller) < a.bet)
            => out.err = ERR_INSUFFICIENT_BALANCE

C17_WellFormed ==
  \A id \in DOMAIN wagers :
    wagers[id].bet > 0 /\ wagers[id].value > 0 /\ wagers[id].at > 0

C17_CreateStep ==
  /\ \A id \in DOMAIN wagers' \ DOMAIN wagers : wagers'[id].at > blockTimestamp
  /\ \A id \in DOMAIN wagers' \cap DOMAIN wagers :
       /\ wagers'[id].at = wagers[id].at
       /\ wagers'[id].bet = wagers[id].bet
       /\ wagers'[id].value = wagers[id].value

C17_RejectStep ==
  \/ UNCHANGED store
  \/ \A caller \in Accounts : \A a \in CreateWagerInputs :
       ~(/\ C17_Case(caller, a)
         /\ createWager(caller, a.symbol, a.isOver, a.value, a.bet, a.at,
                        a.allowCancelAt))

C17_WagerWellFormed ==
  [](C17_WellFormed /\ C17_Errors) /\ [][C17_CreateStep /\ C17_RejectStep]_vars

\* a wager exists, time has passed, one account has no balance record and
\* another has a record with nothing on it
C17_Witness ==
  /\ wagers # EmptyMap
  /\ blockTimestamp > 0
  /\ \E caller \in Accounts : caller \notin DOMAIN balances
  /\ \E caller \in DOMAIN balances : balances[caller] = 0


C20_BalanceBounds ==
  /\ \A a \in DOMAIN balances : balances[a] >= 0 /\ balances[a] <= TOTAL_SUPPLY
  /\ \A caller \in Accounts : \A to \in Accounts : \A amount \in 0..MaxAmount :
       transferCall(caller, to, amount).ok =>
         /\ getBalance(Running, caller) - amount >= 0
         /\ getBalance(Running, to) + amount <= TOTAL_SUPPLY
  /\ \A caller \in Accounts : \A a \in CreateWagerInputs :
       createWagerCall(caller, a.symbol, a.isOver, a.value, a.bet, a.at,
                       a.allowCancelAt).ok =>
         getBalance(Running, caller) - a.bet >= 0
  /\ \A caller \in Accounts : \A id \in DOMAIN wagers :
       /\ acceptWagerCall(caller, id).ok =>
            getBalance(Running, caller) - wagers[id].bet >= 0
       /\ cancelWagerCall(caller, id).ok =>
            getBalance(Running, caller) + wagers[id].bet <= TOTAL_SUPPLY

====
